---------------------------- MODULE Spec2Model ----------------------------
(***************************************************************************)
(* A model of the webcam eye tracker (webcamEyeTracker/src/eye_tracker.py  *)
(* and calibration.py).                                                    *)
(*                                                                         *)
(* Numbers.  Python floats are modelled as exact real numbers: a ratio,    *)
(* an offset or a pixel coordinate is a rational [n, d]; a value that has  *)
(* passed through np.std (a scale, a calibrated ratio) is a signed square  *)
(* root of a rational [sg, sq] = sg * sqrt(sq).  IEEE rounding is outside  *)
(* the model.  A rational with d = 0 is what numpy's float division by     *)
(* zero yields: n = 1 is inf, n = -1 is -inf, n = 0 is nan.                *)
(***************************************************************************)
EXTENDS Integers, Sequences, FiniteSets, TLC

VARIABLES
    \* ---- the tracker object and its surroundings (eye_tracker.py)
    pc,            \* where control is (see the actions)
    caller,        \* who called run_calibration: "top", "live" or "logger"
    cap,           \* self.cap: "none", "closed" (unopened / released) or "open"
    window,        \* the HighGUI window 'Calibration' exists
    orphans,       \* handles still open when self.cap was rebound
    calData,       \* self.calibration_data (a Python value)
    file,          \* the calibration file: "absent" or its content
    log,           \* what the last operation printed
    raised,        \* the exception that left the last operation, or "none"
    frame,         \* what the last cap.read() of a capture loop returned
    rows,          \* rows the gaze logger has written to its CSV file
    \* ---- run_calibration's locals (calibration.py)
    points,        \* calibration_points: sequence of [pos, samples]
    idx,           \* index of the point being sampled
    count,         \* sample_count
    now,           \* time.time(), counted in fits
    ret,           \* run_calibration's last return value
    \* ---- inputs and results of the pure functions
    inp,           \* the input drawn for the function under check
    out,           \* its result
    \* ---- history, read by the properties only
    initFile,      \* the calibration file as EyeTracker.__init__ found it
    lastSave       \* the last save_calibration call: its argument and outcome

vars == <<pc, caller, cap, window, orphans, calData, file, log, raised, frame, rows,
          points, idx, count, now, ret, inp, out, initFile, lastSave>>

-----------------------------------------------------------------------------
(* Exact arithmetic *)

Abs(x) == IF x < 0 THEN -x ELSE x
Sign(x) == IF x < 0 THEN -1 ELSE IF x = 0 THEN 0 ELSE 1

RECURSIVE GCD(_, _)
GCD(a, b) == IF b = 0 THEN a ELSE GCD(b, a % b)

\* The rational n/d in lowest terms, d > 0; d = 0 is a non-finite float.
Rat(n, d) ==
    IF d = 0 THEN [n |-> Sign(n), d |-> 0]
    ELSE LET g == GCD(Abs(n), Abs(d))
         IN  [n |-> (Sign(d) * Sign(n) * Abs(n)) \div g, d |-> Abs(d) \div g]

RZero == Rat(0, 1)
ROne == Rat(1, 1)
RHalf == Rat(1, 2)
RNaN == Rat(0, 0)
IsFinite(a) == a.d # 0
IsNaN(a) == a.d = 0 /\ a.n = 0

RAdd(a, b) ==
    IF IsFinite(a) /\ IsFinite(b) THEN Rat(a.n * b.d + b.n * a.d, a.d * b.d)
    ELSE IF IsNaN(a) \/ IsNaN(b) THEN RNaN
    ELSE IF ~IsFinite(a) /\ ~IsFinite(b) /\ a.n # b.n THEN RNaN
    ELSE IF ~IsFinite(a) THEN a ELSE b
RNeg(a) == [n |-> -a.n, d |-> a.d]
RSub(a, b) == RAdd(a, RNeg(b))
RMul(a, b) ==
    IF IsFinite(a) /\ IsFinite(b) THEN Rat(a.n * b.n, a.d * b.d)
    ELSE Rat(Sign(a.n) * Sign(b.n), 0)
\* Float division as numpy does it: x/0 is inf, -inf or nan, never an error.
RDiv(a, b) ==
    IF IsFinite(a) /\ IsFinite(b) THEN Rat(a.n * b.d, a.d * b.n)
    ELSE IF IsFinite(b) THEN Rat(a.n * Sign(b.n), 0)
    ELSE IF IsFinite(a) /\ ~IsNaN(b) THEN RZero
    ELSE RNaN
\* Comparisons are false when a nan takes part, as in IEEE arithmetic.
RLess(a, b) ==
    /\ ~IsNaN(a) /\ ~IsNaN(b)
    /\ IF IsFinite(a) /\ IsFinite(b) THEN a.n * b.d < b.n * a.d
       ELSE IF ~IsFinite(a) /\ ~IsFinite(b) THEN a.n < b.n
       ELSE IF ~IsFinite(a) THEN a.n < 0 ELSE b.n > 0
RLeq(a, b) == ~IsNaN(a) /\ ~IsNaN(b) /\ ~RLess(b, a)

\* np.clip(x, lo, hi) on a float: minimum(maximum(x, lo), hi); nan stays nan.
RClip(x, lo, hi) ==
    IF IsNaN(x) THEN x
    ELSE IF RLess(x, lo) THEN lo
    ELSE IF RLess(hi, x) THEN hi
    ELSE x

RECURSIVE RSum(_)
RSum(s) == IF s = <<>> THEN RZero ELSE RAdd(Head(s), RSum(Tail(s)))

\* np.mean of a non-empty sequence of floats.
RMean(s) == RDiv(RSum(s), Rat(Len(s), 1))

\* The population variance np.std takes the root of (ddof = 0).
RVar(s) ==
    LET m == RMean(s)
    IN  RMean([i \in 1..Len(s) |-> RMul(RSub(s[i], m), RSub(s[i], m))])

\* sg * sqrt(sq), with sq a rational >= 0 and sg in {-1, 0, 1}; zero is
\* [0, 0/1], so that equal reals are equal records.
Root(sg, sq) ==
    IF sg = 0 \/ sq.n = 0 THEN [sg |-> 0, sq |-> RZero] ELSE [sg |-> sg, sq |-> sq]
FromRat(r) == Root(Sign(r.n), RMul(r, r))
SOne == FromRat(ROne)
SZero == FromRat(RZero)
\* np.std
Std(s) == Root(1, RVar(s))
\* rational * root
SMulRat(r, x) == Root(Sign(r.n) * x.sg, RMul(RMul(r, r), x.sq))
\* root / root as float division does it: x/0 is inf, -inf or nan
SDiv(x, y) ==
    IF y.sg = 0 THEN [sg |-> x.sg, sq |-> Rat(Abs(x.sg), 0)]
    ELSE Root(x.sg * y.sg, RDiv(x.sq, y.sq))
SIsFinite(x) == IsFinite(x.sq)
SLess(x, y) ==
    IF x.sg <= 0 /\ y.sg <= 0 THEN RLess(y.sq, x.sq)
    ELSE IF x.sg <= 0 THEN TRUE
    ELSE IF y.sg <= 0 THEN FALSE
    ELSE RLess(x.sq, y.sq)
SLeq(x, y) == ~SLess(y, x)
\* np.clip(x, 0.0, 1.0)
SClip01(x) == IF SLess(x, SZero) THEN SZero ELSE IF SLess(SOne, x) THEN SOne ELSE x

\* floor(w * sqrt(q)) and ceil(w * sqrt(q)) for an integer w >= 0, q >= 0.
FloorRoot(w, q) ==
    CHOOSE k \in 0..(w * (q.n \div q.d + 1)) :
        /\ k * k * q.d <= w * w * q.n
        /\ (k + 1) * (k + 1) * q.d > w * w * q.n
CeilRoot(w, q) ==
    LET f == FloorRoot(w, q) IN IF f * f * q.d = w * w * q.n THEN f ELSE f + 1
\* int(x * w): Python's int() truncates toward zero.
TruncMul(x, w) == x.sg * FloorRoot(w, x.sq)
\* int((1 - x) * w)
TruncOneMinusMul(x, w) ==
    IF x.sg <= 0 THEN w + FloorRoot(w, x.sq)
    ELSE IF RLeq(x.sq, ROne) THEN w - CeilRoot(w, x.sq)
    ELSE -(FloorRoot(w, x.sq) - w)

-----------------------------------------------------------------------------
(* Python values, as far as the calibration data needs them *)

PyNone == [type |-> "NoneType"]
PyFloat(x) == [type |-> "float", val |-> x]      \* x a root
PyInt(i) == [type |-> "int", val |-> i]
PyStr(s) == [type |-> "str", val |-> s]
PyList(s) == [type |-> "list", items |-> s]
PyDict(f) == [type |-> "dict", items |-> f]      \* f a function on its keys

\* bool(x), as `if self.calibration_data:` and `if not ...:` take it
Truthy(x) ==
    CASE x.type = "NoneType" -> FALSE
      [] x.type = "float" -> x.val # SZero
      [] x.type = "int" -> x.val # 0
      [] x.type = "str" -> x.val # ""
      [] x.type = "list" -> x.items # <<>>
      [] x.type = "dict" -> DOMAIN x.items # {}

IsNumber(x) == x.type \in {"float", "int"}
\* the value of a Python number as a root
NumVal(x) == IF x.type = "int" THEN FromRat(Rat(x.val, 1)) ELSE x.val
\* a root that is a rational, as the rational it is
ToRat(x) ==
    LET rn == CHOOSE k \in 0..x.sq.n : k * k = x.sq.n
        rd == CHOOSE k \in 1..x.sq.d : k * k = x.sq.d
    IN  Rat(x.sg * rn, rd)
IsRational(x) ==
    /\ \E k \in 0..x.sq.n : k * k = x.sq.n
    /\ \E k \in 1..x.sq.d : k * k = x.sq.d
\* dict.get(key, default)
DictGet(dict, key, default) ==
    IF key \in DOMAIN dict.items THEN dict.items[key] ELSE default

-----------------------------------------------------------------------------
(* eye_tracker.py: the pure functions *)

MinOf(s) == CHOOSE x \in {s[i] : i \in 1..Len(s)} : \A i \in 1..Len(s) : RLeq(x, s[i])
MaxOf(s) == CHOOSE x \in {s[i] : i \in 1..Len(s)} : \A i \in 1..Len(s) : RLeq(s[i], x)

\* calculate_gaze_ratio without the np.clip calls
calculate_gaze_ratio_unclamped(iris_center, eye_coords) ==
    LET xs == [i \in 1..Len(eye_coords) |-> eye_coords[i][1]]
        ys == [i \in 1..Len(eye_coords) |-> eye_coords[i][2]]
        eye_width == RSub(MaxOf(xs), MinOf(xs))
        eye_height == RSub(MaxOf(ys), MinOf(ys))
    IN  IF eye_width = RZero \/ eye_height = RZero
        THEN [h |-> RHalf, v |-> RHalf, divisions |-> 0]
        ELSE [h |-> RDiv(RSub(iris_center[1], MinOf(xs)), eye_width),
              v |-> RDiv(RSub(iris_center[2], MinOf(ys)), eye_height),
              divisions |-> 2]

\* calculate_gaze_ratio guarding with `and` where the code has `or`
calculate_gaze_ratio_and_guard(iris_center, eye_coords) ==
    LET xs == [i \in 1..Len(eye_coords) |-> eye_coords[i][1]]
        ys == [i \in 1..Len(eye_coords) |-> eye_coords[i][2]]
        eye_width == RSub(MaxOf(xs), MinOf(xs))
        eye_height == RSub(MaxOf(ys), MinOf(ys))
    IN  IF eye_width = RZero /\ eye_height = RZero
        THEN [h |-> RHalf, v |-> RHalf, divisions |-> 0]
        ELSE [h |-> RClip(RDiv(RSub(iris_center[1], MinOf(xs)), eye_width), RZero, ROne),
              v |-> RClip(RDiv(RSub(iris_center[2], MinOf(ys)), eye_height), RZero, ROne),
              divisions |-> 2]

\* EyeTracker.calculate_gaze_ratio.  iris_center is a point <<x, y>>,
\* eye_coords a non-empty sequence of points.  `divisions` counts the float
\* divisions the call performed.
calculate_gaze_ratio(iris_center, eye_coords) ==
    LET xs == [i \in 1..Len(eye_coords) |-> eye_coords[i][1]]
        ys == [i \in 1..Len(eye_coords) |-> eye_coords[i][2]]
        eye_min == <<MinOf(xs), MinOf(ys)>>
        eye_max == <<MaxOf(xs), MaxOf(ys)>>
        eye_width == RSub(eye_max[1], eye_min[1])
        eye_height == RSub(eye_max[2], eye_min[2])
    IN  IF eye_width = RZero \/ eye_height = RZero
        THEN [h |-> RHalf, v |-> RHalf, divisions |-> 0]
        ELSE LET h_ratio == RDiv(RSub(iris_center[1], eye_min[1]), eye_width)
                 v_ratio == RDiv(RSub(iris_center[2], eye_min[2]), eye_height)
             IN  [h |-> RClip(h_ratio, RZero, ROne),
                  v |-> RClip(v_ratio, RZero, ROne),
                  divisions |-> 2]

\* EyeTracker.apply_calibration on self.calibration_data = data and two raw
\* ratios (rationals).  The result names the exception raised, or "none" and
\* the calibrated ratios (roots).
apply_calibration(data, h_ratio, v_ratio) ==
    IF ~Truthy(data)
    THEN [raised |-> "none", h |-> FromRat(h_ratio), v |-> FromRat(v_ratio)]
    ELSE IF data.type # "dict"
    THEN [raised |-> "AttributeError"]          \* no .get on a list, str, number
    ELSE LET h_offset == DictGet(data, "h_offset", PyInt(0))
             v_offset == DictGet(data, "v_offset", PyInt(0))
             h_scale == DictGet(data, "h_scale", PyInt(1))
             v_scale == DictGet(data, "v_scale", PyInt(1))
         IN  IF ~(IsNumber(h_offset) /\ IsNumber(v_offset)
                  /\ IsNumber(h_scale) /\ IsNumber(v_scale))
             THEN [raised |-> "TypeError"]      \* float - str, float * None
             ELSE LET calibrated_h ==
                          SMulRat(RSub(h_ratio, ToRat(NumVal(h_offset))), NumVal(h_scale))
                      calibrated_v ==
                          SMulRat(RSub(v_ratio, ToRat(NumVal(v_offset))), NumVal(v_scale))
                  IN  [raised |-> "none",
                       h |-> SClip01(calibrated_h), v |-> SClip01(calibrated_v)]

\* estimate_screen_position without the horizontal inversion
estimate_screen_position_not_inverted(data, left_gaze, right_gaze, screen_width, screen_height) ==
    LET avg_h == RDiv(RAdd(left_gaze[1], right_gaze[1]), Rat(2, 1))
        avg_v == RDiv(RAdd(left_gaze[2], right_gaze[2]), Rat(2, 1))
        cal == IF Truthy(data) THEN apply_calibration(data, avg_h, avg_v)
               ELSE [raised |-> "none", h |-> FromRat(avg_h), v |-> FromRat(avg_v)]
    IN  IF cal.raised # "none" THEN [raised |-> cal.raised]
        ELSE [raised |-> "none",
              x |-> TruncMul(cal.h, screen_width),
              y |-> TruncMul(cal.v, screen_height)]

\* EyeTracker.estimate_screen_position on self.calibration_data = data.
estimate_screen_position(data, left_gaze, right_gaze, screen_width, screen_height) ==
    LET avg_h == RDiv(RAdd(left_gaze[1], right_gaze[1]), Rat(2, 1))
        avg_v == RDiv(RAdd(left_gaze[2], right_gaze[2]), Rat(2, 1))
        cal == IF Truthy(data) THEN apply_calibration(data, avg_h, avg_v)
               ELSE [raised |-> "none", h |-> FromRat(avg_h), v |-> FromRat(avg_v)]
    IN  IF cal.raised # "none" THEN [raised |-> cal.raised]
        ELSE [raised |-> "none",
              x |-> TruncOneMinusMul(cal.h, screen_width),
              y |-> TruncMul(cal.v, screen_height)]

-----------------------------------------------------------------------------
(* calibration.py: the fit *)

\* CalibrationPoint(screen_x, screen_y)
CalibrationPoint(x, y) == [screen_pos |-> <<x, y>>, gaze_samples |-> <<>>]

\* CalibrationPoint.add_sample
add_sample(point, h_ratio, v_ratio) ==
    [point EXCEPT !.gaze_samples = Append(@, <<h_ratio, v_ratio>>)]

\* CalibrationPoint.get_average_gaze
get_average_gaze(point) ==
    IF point.gaze_samples = <<>> THEN <<RHalf, RHalf>>
    ELSE LET n == Len(point.gaze_samples)
         IN  <<RMean([i \in 1..n |-> point.gaze_samples[i][1]]),
               RMean([i \in 1..n |-> point.gaze_samples[i][2]])>>

\* calculate_calibration_transform(calibration_points), called at time t.
\* np.array of an empty list is one-dimensional: gaze_center[0] raises
\* IndexError.
calculate_calibration_transform(calibration_points, t) ==
    LET n == Len(calibration_points)
        gaze == [i \in 1..n |-> get_average_gaze(calibration_points[i])]
        screen_h == [i \in 1..n |-> calibration_points[i].screen_pos[1]]
        screen_v == [i \in 1..n |-> calibration_points[i].screen_pos[2]]
        gaze_h == [i \in 1..n |-> gaze[i][1]]
        gaze_v == [i \in 1..n |-> gaze[i][2]]
    IN  IF n = 0 THEN [raised |-> "IndexError"]
        ELSE LET h_offset == RSub(RMean(gaze_h), RMean(screen_h))
                 v_offset == RSub(RMean(gaze_v), RMean(screen_v))
                 gaze_spread_h == Std(gaze_h)
                 gaze_spread_v == Std(gaze_v)
                 screen_spread_h == Std(screen_h)
                 screen_spread_v == Std(screen_v)
                 h_scale == IF SLess(SZero, gaze_spread_h)
                            THEN SDiv(screen_spread_h, gaze_spread_h) ELSE SOne
                 v_scale == IF SLess(SZero, gaze_spread_v)
                            THEN SDiv(screen_spread_v, gaze_spread_v) ELSE SOne
             IN  [raised |-> "none",
                  data |-> PyDict([k \in {"h_offset", "v_offset", "h_scale",
                                          "v_scale", "num_points", "timestamp"} |->
                              CASE k = "h_offset" -> PyFloat(FromRat(h_offset))
                                [] k = "v_offset" -> PyFloat(FromRat(v_offset))
                                [] k = "h_scale" -> PyFloat(h_scale)
                                [] k = "v_scale" -> PyFloat(v_scale)
                                [] k = "num_points" -> PyInt(n)
                                [] k = "timestamp" -> PyFloat(FromRat(Rat(t, 1)))])]

-----------------------------------------------------------------------------
(* The calibration file and its JSON text.                                  *)
(* json.dump(..., indent=2) writes one line per item; the text of a file is *)
(* the sequence of its lines.  Python's repr of a float is the shortest     *)
(* numeral that float() reads back as the same value; the model's numeral   *)
(* of an exact value is its sign and the reduced fraction under the root.   *)

FloatRepr(x) == <<x.sg, x.sq.n, x.sq.d>>
ParseFloat(t) == Root(t[1], Rat(t[2], t[3]))
IntRepr(i) == <<Sign(i), Abs(i)>>
ParseInt(t) == t[1] * t[2]

\* the JSON literal of an atom
JsonLiteral(v) ==
    CASE v.type = "float" -> [kind |-> "float", repr |-> FloatRepr(v.val)]
      [] v.type = "int" -> [kind |-> "int", repr |-> IntRepr(v.val)]
      [] v.type = "str" -> [kind |-> "string", repr |-> v.val]
      [] v.type = "NoneType" -> [kind |-> "null"]
ParseLiteral(l) ==
    CASE l.kind = "float" -> PyFloat(ParseFloat(l.repr))
      [] l.kind = "int" -> PyInt(ParseInt(l.repr))
      [] l.kind = "string" -> PyStr(l.repr)
      [] l.kind = "null" -> PyNone

\* the order json.dump writes the keys of a calibration dict in
KeyOrder == <<"h_offset", "v_offset", "h_scale", "v_scale", "num_points", "timestamp">>
KeysOf(d) == SelectSeq(KeyOrder, LAMBDA k : k \in DOMAIN d.items)

\* json.dump(v, f, indent=2), for an atom, a list of atoms or a dict of atoms
json_dump(v) ==
    CASE v.type = "dict" ->
            <<[t |-> "{"]>>
            \o [i \in 1..Len(KeysOf(v)) |->
                   [t |-> "pair", key |-> KeysOf(v)[i],
                    lit |-> JsonLiteral(v.items[KeysOf(v)[i]])]]
            \o <<[t |-> "}"]>>
      [] v.type = "list" ->
            <<[t |-> "["]>>
            \o [i \in 1..Len(v.items) |-> [t |-> "value", lit |-> JsonLiteral(v.items[i])]]
            \o <<[t |-> "]"]>>
      [] OTHER -> <<[t |-> "value", lit |-> JsonLiteral(v)]>>

Middle(text) == SubSeq(text, 2, Len(text) - 1)
AllOf(q, kind) == \A i \in 1..Len(q) : q[i].t = kind
\* json.load(f): the value, or JSONDecodeError
json_load(text) ==
    LET n == Len(text)
    IN  IF n >= 2 /\ text[1].t = "{" /\ text[n].t = "}" /\ AllOf(Middle(text), "pair")
        THEN [raised |-> "none",
              value |-> PyDict([k \in {Middle(text)[i].key : i \in 1..(n - 2)} |->
                  ParseLiteral(
                      (CHOOSE l \in {Middle(text)[i] : i \in 1..(n - 2)} : l.key = k).lit)])]
        ELSE IF n >= 2 /\ text[1].t = "[" /\ text[n].t = "]" /\ AllOf(Middle(text), "value")
        THEN [raised |-> "none",
              value |-> PyList([i \in 1..(n - 2) |-> ParseLiteral(Middle(text)[i].lit)])]
        ELSE IF n = 1 /\ text[1].t = "value"
        THEN [raised |-> "none", value |-> ParseLiteral(text[1].lit)]
        ELSE [raised |-> "JSONDecodeError"]

\* a file with the given text; `readable` is whether open(..., 'r') succeeds
FileOf(text, readable) == [exists |-> TRUE, readable |-> readable, text |-> text]

\* EyeTracker.load_calibration on the file f, self.calibration_data = data
load_calibration(data, f) ==
    IF ~f.exists THEN [calData |-> data, log |-> <<>>, ret |-> FALSE]
    ELSE IF ~f.readable
    THEN [calData |-> data, log |-> <<"Error loading calibration">>, ret |-> FALSE]
    ELSE LET r == json_load(f.text)
         IN  IF r.raised # "none"
             THEN [calData |-> data, log |-> <<"Error loading calibration">>, ret |-> FALSE]
             ELSE [calData |-> r.value, log |-> <<"Loaded calibration">>, ret |-> TRUE]

\* what can go wrong while save_calibration runs: nothing, os.makedirs
\* raises, open(..., 'w') raises, or the write raises after `written` lines.
\* Every proper prefix of the text fails to parse alike; the model takes the
\* shortest and the longest.
SaveFaults(text) ==
    {[at |-> "none"], [at |-> "makedirs"], [at |-> "open"]}
    \cup {[at |-> "write", written |-> k] : k \in {0, Len(text) - 1}}

\* save_calibration opening the file with 'a' where the code has 'w'
save_calibration_append(data, f, arg, fault) ==
    LET old == IF f.exists THEN f.text ELSE <<>>
    IN  CASE fault.at = "makedirs" ->
                [calData |-> data, file |-> f, log |-> <<>>, raised |-> "OSError"]
          [] fault.at = "open" ->
                [calData |-> data, file |-> f,
                 log |-> <<"Error saving calibration">>, raised |-> "none"]
          [] fault.at = "write" ->
                [calData |-> data,
                 file |-> FileOf(old \o SubSeq(json_dump(arg), 1, fault.written), TRUE),
                 log |-> <<"Error saving calibration">>, raised |-> "none"]
          [] fault.at = "none" ->
                [calData |-> arg, file |-> FileOf(old \o json_dump(arg), TRUE),
                 log |-> <<"Saved calibration">>, raised |-> "none"]

\* EyeTracker.save_calibration(calibration_data = arg) under a fault, with
\* self.calibration_data = data and the file f.  os.makedirs stands outside
\* the try; open(..., 'w') truncates the file before anything is written.
save_calibration(data, f, arg, fault) ==
    CASE fault.at = "makedirs" ->
            [calData |-> data, file |-> f, log |-> <<>>, raised |-> "OSError"]
      [] fault.at = "open" ->
            [calData |-> data, file |-> f,
             log |-> <<"Error saving calibration">>, raised |-> "none"]
      [] fault.at = "write" ->
            [calData |-> data,
             file |-> FileOf(SubSeq(json_dump(arg), 1, fault.written), TRUE),
             log |-> <<"Error saving calibration">>, raised |-> "none"]
      [] fault.at = "none" ->
            [calData |-> arg, file |-> FileOf(json_dump(arg), TRUE),
             log |-> <<"Saved calibration">>, raised |-> "none"]

-----------------------------------------------------------------------------
(* Bounds and the values every specification starts the tracker with *)

MaxCoord == 2        \* pixel coordinates of eye landmarks are 0..MaxCoord

NoFile == [exists |-> FALSE]
NoResult == [raised |-> "unset"]
NoFrame == [ret |-> FALSE, face |-> FALSE]
\* no save_calibration call yet.  `outcome`, `arg`, `raised` and `logged`
\* describe the last call, `mine` is whether the present tracker made it;
\* `good` is the argument of the last call that completed, `intact` whether
\* no later call failed while writing.
NoSave == [outcome |-> "never", arg |-> PyNone, raised |-> "none", logged |-> <<>>,
           mine |-> FALSE, good |-> PyNone, intact |-> TRUE]

\* The tracker before EyeTracker.__init__ has run, no call in progress.
Blank ==
    /\ caller = "top" /\ cap = "none" /\ window = FALSE /\ orphans = 0
    /\ log = <<>> /\ raised = "none"
    /\ frame = NoFrame /\ rows = 0 /\ points = <<>> /\ idx = 0 /\ count = 0 /\ now = 0
    /\ ret = PyNone /\ initFile = NoFile /\ lastSave = NoSave

-----------------------------------------------------------------------------
(* SpecGaze: calculate_gaze_ratio on drawn landmarks *)

Pixels == {Rat(x, 1) : x \in 0..MaxCoord}
\* an iris centre is a mean of landmarks: half pixels, also outside the eye
IrisCoords == {Rat(k, 2) : k \in (-1)..(2 * MaxCoord + 1)}
PixelPoints == {<<x, y>> : x \in Pixels, y \in Pixels}
EyeCoords == {<<p>> : p \in PixelPoints}
             \cup {<<p, q>> : p \in PixelPoints, q \in PixelPoints}

InitGaze ==
    /\ Blank /\ calData = PyNone /\ file = NoFile
    /\ pc = "call"
    /\ inp \in [iris_center : IrisCoords \X IrisCoords, eye_coords : EyeCoords]
    /\ out = NoResult

CallGazeRatio ==
    /\ pc = "call"
    /\ out' = calculate_gaze_ratio(inp.iris_center, inp.eye_coords)
    /\ pc' = "done"
    /\ UNCHANGED <<caller, cap, orphans, calData, file, log, raised, frame, rows,
                   points, idx, count, now, ret, inp, initFile, lastSave>>
    /\ UNCHANGED window

NextGaze == CallGazeRatio
SpecGaze == InitGaze /\ [][NextGaze]_vars

\* the bounding box of the drawn eye_coords, stated without the code's min/max
BoxLo(axis) ==
    CHOOSE m \in {inp.eye_coords[i][axis] : i \in DOMAIN inp.eye_coords} :
        \A i \in DOMAIN inp.eye_coords : RLeq(m, inp.eye_coords[i][axis])
BoxHi(axis) ==
    CHOOSE m \in {inp.eye_coords[i][axis] : i \in DOMAIN inp.eye_coords} :
        \A i \in DOMAIN inp.eye_coords : RLeq(inp.eye_coords[i][axis], m)
BoxDegenerate == \E axis \in {1, 2} : BoxLo(axis) = BoxHi(axis)
IrisInside ==
    \A axis \in {1, 2} : /\ RLeq(BoxLo(axis), inp.iris_center[axis])
                         /\ RLeq(inp.iris_center[axis], BoxHi(axis))
IrisAtCentre ==
    \A axis \in {1, 2} :
        RAdd(inp.iris_center[axis], inp.iris_center[axis])
            = RAdd(BoxLo(axis), BoxHi(axis))
InUnit(r) == RLeq(RZero, r) /\ RLeq(r, ROne)
\* r is the position of the iris between lo and hi: r * (hi - lo) = iris - lo
IsRatio(r, axis) ==
    RMul(r, RSub(BoxHi(axis), BoxLo(axis))) = RSub(inp.iris_center[axis], BoxLo(axis))

\* C6: for a bounding box of nonzero width and height calculate_gaze_ratio
\* returns both ratios in [0,1]: the unclamped position of an iris centre
\* inside the box, 0 or 1 on the side an outside centre lies on, and
\* (0.5, 0.5) for a centre in the middle of the box.
GazeRatioInUnit ==
    (pc = "done" /\ ~BoxDegenerate) =>
        /\ InUnit(out.h) /\ InUnit(out.v)
        /\ IrisInside => IsRatio(out.h, 1) /\ IsRatio(out.v, 2)
        /\ RLess(inp.iris_center[1], BoxLo(1)) => out.h = RZero
        /\ RLess(BoxHi(1), inp.iris_center[1]) => out.h = ROne
        /\ RLess(inp.iris_center[2], BoxLo(2)) => out.v = RZero
        /\ RLess(BoxHi(2), inp.iris_center[2]) => out.v = ROne
        /\ IrisAtCentre => out.h = RHalf /\ out.v = RHalf
\* an iris centre outside a proper box has been clamped
GazeRatioClampedWitness ==
    /\ pc = "done" /\ ~BoxDegenerate
    /\ RLess(BoxHi(1), inp.iris_center[1]) /\ out.h = ROne
    /\ IrisAtCentre = FALSE

\* C7: for a bounding box of zero width or zero height calculate_gaze_ratio
\* returns exactly (0.5, 0.5) whatever the iris centre, and divides nothing.
DegenerateBoxIsCentred ==
    (pc = "done" /\ BoxDegenerate) =>
        out.h = RHalf /\ out.v = RHalf /\ out.divisions = 0
\* a box of zero height and nonzero width, the iris not at its middle
DegenerateBoxWitness ==
    /\ pc = "done" /\ BoxLo(2) = BoxHi(2) /\ BoxLo(1) # BoxHi(1)
    /\ inp.iris_center[1] = BoxLo(1)
    /\ out.h = RHalf

-----------------------------------------------------------------------------
(* SpecFit: calculate_calibration_transform on drawn calibration points,    *)
(* then apply_calibration with the fitted parameters on the gaze centroid.  *)

MaxSamples == 1      \* samples drawn per calibration point: 0..MaxSamples

\* run_calibration's five-point layout (calibration.py, lines 59-66)
Positions5 ==
    << <<Rat(1, 2), Rat(1, 2)>>, <<Rat(1, 10), Rat(1, 10)>>, <<Rat(9, 10), Rat(1, 10)>>,
       <<Rat(1, 10), Rat(9, 10)>>, <<Rat(9, 10), Rat(9, 10)>> >>

\* the (avg_h, avg_v) samples a frame with a face can add
GazeSamples == {<<Rat(1, 4), Rat(1, 2)>>, <<Rat(3, 4), Rat(1, 4)>>}

RECURSIVE SeqsUpTo(_, _)
SeqsUpTo(S, n) ==
    IF n = 0 THEN {<<>>}
    ELSE LET shorter == SeqsUpTo(S, n - 1)
         IN  shorter \cup {Append(q, x) : q \in shorter, x \in S}

RECURSIVE SubSeqs(_)
\* the subsequences of a sequence, order kept
SubSeqs(q) ==
    IF q = <<>> THEN {<<>>}
    ELSE LET rest == SubSeqs(Tail(q))
         IN  rest \cup {<<Head(q)>> \o r : r \in rest}

\* every way to record 0..MaxSamples samples at each of the given positions
RECURSIVE PointLists(_)
PointLists(pos) ==
    IF pos = <<>> THEN {<<>>}
    ELSE {<<[screen_pos |-> Head(pos), gaze_samples |-> g]>> \o r :
              g \in SeqsUpTo(GazeSamples, MaxSamples), r \in PointLists(Tail(pos))}

FitInputs == UNION {PointLists(pos) : pos \in SubSeqs(Positions5)}

InitFit ==
    /\ Blank /\ calData = PyNone /\ file = NoFile
    /\ pc = "call"
    /\ inp \in [calibration_points : FitInputs]
    /\ out = NoResult

CallFit ==
    /\ pc = "call"
    /\ out' = [fit |-> calculate_calibration_transform(inp.calibration_points, now),
                applied |-> NoResult]
    /\ pc' = IF out'.fit.raised = "none" THEN "fitted" ELSE "done"
    /\ UNCHANGED <<caller, cap, orphans, calData, file, log, raised, frame, rows,
                   points, idx, count, now, ret, inp, initFile, lastSave>>
    /\ UNCHANGED window

\* the centroid of the averaged gaze ratios of the drawn points
GazeCentroid ==
    LET n == Len(inp.calibration_points)
        g == [i \in 1..n |-> get_average_gaze(inp.calibration_points[i])]
    IN  <<RMean([i \in 1..n |-> g[i][1]]), RMean([i \in 1..n |-> g[i][2]])>>
TargetCentroid ==
    LET n == Len(inp.calibration_points)
    IN  <<RMean([i \in 1..n |-> inp.calibration_points[i].screen_pos[1]]),
          RMean([i \in 1..n |-> inp.calibration_points[i].screen_pos[2]])>>

\* a tracker whose calibration_data is the fit maps the gaze centroid
ApplyToCentroid ==
    /\ pc = "fitted"
    /\ out' = [out EXCEPT !.applied =
                   apply_calibration(out.fit.data, GazeCentroid[1], GazeCentroid[2])]
    /\ pc' = "done"
    /\ UNCHANGED <<caller, cap, orphans, calData, file, log, raised, frame, rows,
                   points, idx, count, now, ret, inp, initFile, lastSave>>
    /\ UNCHANGED window

NextFit == CallFit \/ ApplyToCentroid
SpecFit == InitFit /\ [][NextFit]_vars
\* the averaged gaze ratios and the targets of the drawn points, per axis
AvgGaze(axis) ==
    [i \in DOMAIN inp.calibration_points |->
        get_average_gaze(inp.calibration_points[i])[axis]]
Targets(axis) ==
    [i \in DOMAIN inp.calibration_points |-> inp.calibration_points[i].screen_pos[axis]]
ZeroSpread(q) == \A i, j \in DOMAIN q : q[i] = q[j]
FittedScale(axis) ==
    out.fit.data.items[IF axis = 1 THEN "h_scale" ELSE "v_scale"].val
\* scale = target-spread / gaze-spread: scale >= 0 and
\* scale^2 * var(gaze) = var(targets)
IsSpreadRatio(scale, axis) ==
    /\ scale.sg >= 0 /\ SIsFinite(scale)
    /\ RMul(scale.sq, RVar(AvgGaze(axis))) = RVar(Targets(axis))

\* C4: with P the fit of the drawn points and g the centroid of their
\* averaged gaze ratios, apply_calibration under P maps g to the centroid of
\* the targets, clamped to [0,1], on both axes.
CentroidRoundTrip ==
    pc = "done" /\ out.fit.raised = "none" =>
        /\ out.applied.raised = "none"
        /\ out.applied.h = SClip01(FromRat(TargetCentroid[1]))
        /\ out.applied.v = SClip01(FromRat(TargetCentroid[2]))

\* C8: calculate_calibration_transform raises nothing and divides by no
\* zero spread, whatever the points and however many samples each holds; on
\* an axis where the averaged gaze ratios have zero spread the scale is 1.0,
\* on any other it is target-spread / gaze-spread.
FitIsTotal ==
    pc # "call" =>
        /\ out.fit.raised = "none"
        /\ \A axis \in {1, 2} :
              IF ZeroSpread(AvgGaze(axis)) THEN FittedScale(axis) = SOne
              ELSE IsSpreadRatio(FittedScale(axis), axis)
\* the same, for one calibration point or more
FitScaleRuleNonEmpty ==
    (pc # "call" /\ inp.calibration_points # <<>>) =>
        /\ out.fit.raised = "none"
        /\ \A axis \in {1, 2} :
              IF ZeroSpread(AvgGaze(axis)) THEN FittedScale(axis) = SOne
              ELSE IsSpreadRatio(FittedScale(axis), axis)

-----------------------------------------------------------------------------
(* SpecScreen: estimate_screen_position on drawn gaze ratios, under drawn   *)
(* calibration data                                                         *)

GazeSteps == 2       \* gaze ratios are k / GazeSteps, k in 0..GazeSteps

\* a calibration dict as calculate_calibration_transform builds it; the
\* offsets are rationals, the scales roots
CalDict(h_offset, v_offset, h_scale, v_scale, n, t) ==
    PyDict([k \in {"h_offset", "v_offset", "h_scale", "v_scale",
                   "num_points", "timestamp"} |->
        CASE k = "h_offset" -> PyFloat(FromRat(h_offset))
          [] k = "v_offset" -> PyFloat(FromRat(v_offset))
          [] k = "h_scale" -> PyFloat(h_scale)
          [] k = "v_scale" -> PyFloat(v_scale)
          [] k = "num_points" -> PyInt(n)
          [] k = "timestamp" -> PyFloat(FromRat(Rat(t, 1)))])

UnitRatios == {Rat(k, GazeSteps) : k \in 0..GazeSteps}
GazeRatios == UnitRatios \X UnitRatios
ScreenSizes == {<<4, 3>>, <<16, 9>>}
\* usable calibration data: fits, and what a calibration file may hold
GoodCalData ==
    { CalDict(RZero, RZero, SOne, SOne, 5, 0),
      CalDict(Rat(1, 4), Rat(-1, 8), FromRat(Rat(2, 1)), FromRat(Rat(1, 2)), 5, 0),
      CalDict(Rat(-1, 4), Rat(1, 2), Root(1, Rat(2, 1)), Root(1, Rat(1, 3)), 9, 0),
      CalDict(Rat(1, 2), RZero, FromRat(Rat(-1, 1)), SZero, 9, 0),
      CalDict(Rat(13, 40), Rat(3, 40), FromRat(Rat(8, 5)), FromRat(Rat(8, 5)), 2, 0) }

InitScreen ==
    /\ Blank /\ file = NoFile
    /\ calData \in {PyNone, PyDict(<<>>)} \cup GoodCalData
    /\ pc = "call"
    /\ inp \in [left_gaze : GazeRatios, right_gaze : GazeRatios, screen : ScreenSizes]
    /\ out = NoResult

CallEstimate ==
    /\ pc = "call"
    /\ out' = estimate_screen_position(calData, inp.left_gaze, inp.right_gaze,
                                       inp.screen[1], inp.screen[2])
    /\ pc' = "done"
    /\ UNCHANGED <<caller, cap, orphans, calData, file, log, raised, frame, rows,
                   points, idx, count, now, ret, inp, initFile, lastSave>>
    /\ UNCHANGED window

NextScreen == CallEstimate
SpecScreen == InitScreen /\ [][NextScreen]_vars

\* the reference mapping of the ratio on one axis: the average of the two
\* eyes, calibrated and clamped when the tracker holds the four parameters
EyesAverage(axis) == RDiv(RAdd(inp.left_gaze[axis], inp.right_gaze[axis]), Rat(2, 1))
HasParameters ==
    calData.type = "dict"
    /\ {"h_offset", "v_offset", "h_scale", "v_scale"} \subseteq DOMAIN calData.items
RefRatio(axis) ==
    IF ~HasParameters THEN FromRat(EyesAverage(axis))
    ELSE LET offset == calData.items[IF axis = 1 THEN "h_offset" ELSE "v_offset"].val
             scale == calData.items[IF axis = 1 THEN "h_scale" ELSE "v_scale"].val
             raw == SMulRat(RSub(EyesAverage(axis), ToRat(offset)), scale)
         IN  IF raw.sg <= 0 THEN SZero
             ELSE IF RLess(ROne, raw.sq) THEN SOne ELSE raw
\* k = trunc(r * w) for a root r in [0,1]: k <= r * w < k + 1
IsTruncOf(k, r, w) ==
    /\ 0 <= k /\ k <= w
    /\ k * k * r.sq.d <= w * w * r.sq.n
    /\ (k + 1) * (k + 1) * r.sq.d > w * w * r.sq.n
\* k = trunc((1 - r) * w) for a root r in [0,1]: w - k - 1 < r * w <= w - k
IsTruncOfOneMinus(k, r, w) ==
    /\ 0 <= k /\ k <= w
    /\ (w - k) * (w - k) * r.sq.d >= w * w * r.sq.n
    /\ (k = w \/ (w - k - 1) * (w - k - 1) * r.sq.d < w * w * r.sq.n)

\* C9: for gaze ratios in [0,1], estimate_screen_position returns
\* x = trunc((1 - h) * screen_width) and y = trunc(v * screen_height) of the
\* reference ratios (h, v), so 0 <= x <= screen_width, 0 <= y <= screen_height.
ScreenPositionIsReference ==
    pc = "done" =>
        /\ out.raised = "none"
        /\ IsTruncOfOneMinus(out.x, RefRatio(1), inp.screen[1])
        /\ IsTruncOf(out.y, RefRatio(2), inp.screen[2])
\* a calibrated gaze strictly inside the screen, not at a pixel boundary
ScreenPositionWitness ==
    /\ pc = "done" /\ HasParameters
    /\ ~IsRational(RefRatio(2))
    /\ 0 < out.x /\ out.x < inp.screen[1]
    /\ 0 < out.y /\ out.y < inp.screen[2]
    /\ inp.left_gaze # inp.right_gaze

-----------------------------------------------------------------------------
(* SpecStore: a tracker is constructed on a calibration file, calibrations  *)
(* are saved, gaze is mapped, and the program is started again.             *)

\* what a calibration file may hold that is not a usable calibration
BadCalData ==
    { PyList(<<PyInt(1)>>), PyStr("abc"), PyInt(5), PyNone, PyDict(<<>>),
      PyDict([k \in {"num_points"} |-> PyInt(9)]),
      PyDict([k \in {"h_offset", "v_offset", "h_scale", "v_scale"} |->
                 IF k = "h_scale" THEN PyStr("2.0") ELSE PyFloat(SOne)]),
      PyDict([k \in {"h_offset", "v_offset", "h_scale", "v_scale"} |->
                 IF k = "v_offset" THEN PyNone ELSE PyFloat(SOne)]) }
SaveArgs ==
    { CalDict(Rat(1, 4), Rat(-1, 8), FromRat(Rat(2, 1)), FromRat(Rat(1, 2)), 5, 1),
      CalDict(Rat(-1, 4), Rat(1, 2), Root(1, Rat(2, 1)), Root(1, Rat(1, 3)), 9, 2) }
InitialFiles ==
    {NoFile}
    \cup {FileOf(json_dump(v), TRUE) : v \in BadCalData \cup SaveArgs}
    \cup {FileOf(json_dump(CalDict(RZero, RZero, SOne, SOne, 5, 0)), FALSE)}
    \cup {FileOf(<<[t |-> "garbage"]>>, TRUE), FileOf(<<>>, TRUE)}
StoreGazes ==
    { [left_gaze |-> <<RHalf, RHalf>>, right_gaze |-> <<RHalf, RHalf>>],
      [left_gaze |-> <<Rat(1, 4), ROne>>, right_gaze |-> <<RHalf, RZero>>] }
DefaultScreen == <<16, 9>>

InitStore ==
    /\ Blank
    /\ calData = PyNone
    /\ file \in InitialFiles
    /\ pc = "new"
    /\ inp = NoResult /\ out = NoResult

\* EyeTracker.__init__: a new tracker on the calibration file (the program
\* is started, or started again)
Construct ==
    /\ pc \in {"new", "ready"}
    /\ LET r == load_calibration(PyNone, file)
       IN  /\ calData' = r.calData
           /\ log' = r.log
    /\ cap' = "none"
    /\ initFile' = file
    /\ lastSave' = [lastSave EXCEPT !.mine = FALSE]
    /\ raised' = "none"
    /\ inp' = NoResult /\ out' = NoResult
    /\ pc' = "ready"
    /\ UNCHANGED <<caller, orphans, file, frame, rows, points, idx, count, now, ret>>
    /\ window' = FALSE

\* the history of save_calibration(arg) that ended as r under the fault
SaveRecord(arg, fault, r) ==
    [outcome |-> IF fault.at = "none" THEN "saved" ELSE "failed",
     arg |-> arg, raised |-> r.raised, logged |-> r.log, mine |-> TRUE,
     good |-> IF fault.at = "none" THEN arg ELSE lastSave.good,
     intact |-> IF fault.at = "none" THEN TRUE
                ELSE IF fault.at = "write" THEN FALSE ELSE lastSave.intact]

\* tracker.save_calibration(arg), called by the program
Save ==
    /\ pc = "ready"
    /\ \E arg \in SaveArgs : \E fault \in SaveFaults(json_dump(arg)) :
          LET r == save_calibration(calData, file, arg, fault)
          IN  /\ calData' = r.calData
              /\ file' = r.file
              /\ log' = r.log
              /\ raised' = r.raised
              /\ lastSave' = SaveRecord(arg, fault, r)
    /\ UNCHANGED <<pc, caller, cap, orphans, frame, rows, points, idx, count, now,
                   ret, inp, out, initFile>>
    /\ UNCHANGED window

\* tracker.estimate_screen_position(left, right, ...), called by the program
Estimate ==
    /\ pc = "ready"
    /\ \E g \in StoreGazes :
          /\ inp' = g
          /\ out' = estimate_screen_position(calData, g.left_gaze, g.right_gaze,
                                             DefaultScreen[1], DefaultScreen[2])
    /\ raised' = out'.raised
    /\ UNCHANGED <<pc, caller, cap, orphans, calData, file, log, frame, rows,
                   points, idx, count, now, ret, initFile, lastSave>>
    /\ UNCHANGED window

NextStore == Construct \/ Save \/ Estimate
SpecStore == InitStore /\ [][NextStore]_vars
ParameterKeys == {"h_offset", "v_offset", "h_scale", "v_scale"}
\* v is an object of numeric h_offset, v_offset, h_scale and v_scale
UsableParameters(v) ==
    /\ v.type = "dict"
    /\ ParameterKeys \subseteq DOMAIN v.items
    /\ \A k \in ParameterKeys : v.items[k].type \in {"float", "int"}
\* the file is there, and cannot be read or holds no usable parameters
Unusable(f) ==
    /\ f.exists
    /\ \/ ~f.readable
       \/ json_load(f.text).raised # "none"
       \/ ~UsableParameters(json_load(f.text).value)

\* C2: a save_calibration call that fails to persist the parameters logs the
\* failure, raises nothing, and leaves the tracker's calibration_data set to
\* the new parameters.
FailedSaveStillCalibrates ==
    (lastSave.outcome = "failed" /\ lastSave.mine) =>
        /\ lastSave.raised = "none"
        /\ lastSave.logged = <<"Error saving calibration">>
        /\ calData = lastSave.arg

\* C3: a tracker constructed on an unusable calibration file has logged a
\* warning and maps gaze as an uncalibrated tracker does, raising nothing.
UnusableFileFailsOpen ==
    (pc = "ready" /\ Unusable(initFile) /\ ~lastSave.mine) =>
        /\ log = <<"Error loading calibration">>
        /\ out # NoResult =>
              /\ out.raised = "none"
              /\ out = estimate_screen_position(PyNone, inp.left_gaze, inp.right_gaze,
                                                DefaultScreen[1], DefaultScreen[2])
\* the part of C3 the code keeps: a file that cannot be read or parsed
UnparseableFileFailsOpen ==
    (pc = "ready" /\ initFile.exists /\ ~lastSave.mine
     /\ (~initFile.readable \/ json_load(initFile.text).raised # "none")) =>
        /\ log = <<"Error loading calibration">>
        /\ calData = PyNone
        /\ out # NoResult => out.raised = "none"

-----------------------------------------------------------------------------
(* Spec: the program.  A tracker is constructed; run_live, run_calibration  *)
(* and the gaze logger's loop are called from the top level, and            *)
(* run_calibration from inside the two loops on the 'c' key.  One action is *)
(* one pass through a loop body, or the straight-line code between loops.   *)
(* pc is "new" before __init__, "ready" at the top level between calls,     *)
(* "live" in run_live's loop, "logging" in the gaze logger's loop,          *)
(* "cal_start", "cal_wait", "cal_sample", "cal_fit" inside run_calibration  *)
(* and "cal_return" when run_calibration has returned to its caller.        *)

SamplesPerPoint == 1   \* the samples_per_point the model's callers pass
MaxFits == 1           \* run_calibration is entered while now < MaxFits
MaxRows == 1           \* the gaze logger sees faces while rows < MaxRows

CameraError == <<"Error: Could not open camera">>

\* EyeTracker.start_camera with self.cap = c; `opens` is cap.isOpened().
\* The old handle, if still open, is rebound without a release.
start_camera(c, o, opens) ==
    [cap |-> IF opens THEN "open" ELSE "closed",
     orphans |-> IF c = "open" THEN o + 1 ELSE o,
     log |-> IF opens THEN <<>> ELSE CameraError,
     ret |-> opens]

\* EyeTracker.stop_camera with self.cap = c
stop_camera(c) == IF c # "none" THEN "closed" ELSE c

\* the landmarks of a face: each eye's iris centre and boundary points
Eye(x, y, ix, iy) ==
    [iris |-> <<Rat(ix, 1), Rat(iy, 1)>>,
     eye |-> << <<Rat(x, 1), Rat(y, 1)>>, <<Rat(x + 4, 1), Rat(y + 2, 1)>> >>]
FaceFrame == [ret |-> TRUE, face |-> TRUE, seq |-> 0,
              left |-> Eye(0, 0, 1, 1), right |-> Eye(6, 0, 7, 1)]
BlankFrame == [ret |-> TRUE, face |-> FALSE, seq |-> 0]
\* successive frames are different images: seq tells a frame from the one
\* read before it
NextSeq == IF frame.ret THEN 1 - frame.seq ELSE 0
\* what cap.read() can return on an open camera; a camera that did not open
\* or was released returns (False, None)
Reads(c) ==
    IF c = "open"
    THEN {NoFrame} \cup {[f EXCEPT !.seq = NextSeq] : f \in {BlankFrame, FaceFrame}}
    ELSE {NoFrame}

\* the two gaze ratios of a frame with a face
LeftGaze(f) ==
    LET g == calculate_gaze_ratio(f.left.iris, f.left.eye) IN <<g.h, g.v>>
RightGaze(f) ==
    LET g == calculate_gaze_ratio(f.right.iris, f.right.eye) IN <<g.h, g.v>>

\* process_frame's gaze_position from what estimate_screen_position gave
gaze_position(est) ==
    IF est.raised # "none" THEN [raised |-> est.raised, found |-> FALSE]
    ELSE [raised |-> "none", found |-> TRUE, x |-> est.x, y |-> est.y]

\* EyeTracker.process_frame: gaze_position (None without a face), or the
\* exception estimate_screen_position raised
process_frame(data, f) ==
    IF ~f.face THEN [raised |-> "none", found |-> FALSE]
    ELSE gaze_position(estimate_screen_position(data, LeftGaze(f), RightGaze(f),
                                                DefaultScreen[1], DefaultScreen[2]))

SessionFiles ==
    { NoFile,
      FileOf(json_dump(CalDict(RZero, RZero, SOne, SOne, 5, 0)), TRUE),
      FileOf(json_dump(PyList(<<PyInt(1)>>)), TRUE) }

Init ==
    /\ Blank
    /\ calData = PyNone
    /\ file \in SessionFiles
    /\ pc = "new"
    /\ inp = NoResult /\ out = NoResult

\* the locals of run_calibration are gone
NoLocals == points' = <<>> /\ idx' = 0 /\ count' = 0

\* run_live entering its loop whatever start_camera returned
RunLiveStartUnchecked ==
    /\ pc = "ready"
    /\ \E opens \in BOOLEAN :
          LET r == start_camera(cap, orphans, opens)
          IN  /\ cap' = r.cap /\ orphans' = r.orphans
              /\ log' = IF r.ret THEN <<"Eye tracker running">> ELSE r.log
              /\ pc' = "live"
    /\ raised' = "none"
    /\ UNCHANGED <<caller, calData, file, frame, rows, points, idx, count, now, ret,
                   inp, out, initFile, lastSave>>
    /\ UNCHANGED window

\* run_live up to its loop (eye_tracker.py, lines 264-269)
RunLiveStart ==
    /\ pc = "ready"
    /\ \E opens \in BOOLEAN :
          LET r == start_camera(cap, orphans, opens)
          IN  /\ cap' = r.cap /\ orphans' = r.orphans
              /\ log' = IF r.ret THEN <<"Eye tracker running">> ELSE r.log
              /\ pc' = IF r.ret THEN "live" ELSE "ready"
    /\ raised' = "none"
    /\ UNCHANGED <<caller, calData, file, frame, rows, points, idx, count, now, ret,
                   inp, out, initFile, lastSave>>
    /\ UNCHANGED window

\* one pass through run_live's loop (lines 272-289), the finally clause
\* (lines 291-292) where the pass leaves the loop
LiveFrame ==
    /\ pc = "live"
    /\ \E f \in Reads(cap), key \in {"none", "q", "c"} :
          \E g \in {process_frame(calData, f)} :
              /\ frame' = f
              /\ IF ~f.ret
                 THEN /\ log' = <<"Error reading frame">>
                      /\ cap' = stop_camera(cap) /\ pc' = "ready"
                      /\ raised' = "none" /\ caller' = caller
                 ELSE IF g.raised # "none"
                 THEN /\ log' = <<>>
                      /\ cap' = stop_camera(cap) /\ pc' = "ready"
                      /\ raised' = g.raised /\ caller' = caller
                 ELSE IF key = "q"
                 THEN /\ log' = <<>>
                      /\ cap' = stop_camera(cap) /\ pc' = "ready"
                      /\ raised' = "none" /\ caller' = caller
                 ELSE IF key = "c" /\ now < MaxFits
                 THEN /\ log' = <<"=== Eye Tracker Calibration ===">>
                      /\ cap' = stop_camera(cap) /\ pc' = "cal_start"
                      /\ raised' = "none" /\ caller' = "live"
                 ELSE /\ log' = <<>>
                      /\ UNCHANGED <<cap, pc, raised, caller>>
    /\ UNCHANGED <<orphans, calData, file, rows, points, idx, count, now, ret,
                   inp, out, initFile, lastSave>>
    /\ window' = IF pc' = "live" THEN window ELSE FALSE

\* the gaze logger's main up to its loop (gaze_logger.py, lines 30-43)
LoggerStart ==
    /\ pc = "ready"
    /\ \E opens \in BOOLEAN :
          LET r == start_camera(cap, orphans, opens)
          IN  /\ cap' = r.cap /\ orphans' = r.orphans /\ log' = r.log
              /\ pc' = IF r.ret THEN "logging" ELSE "ready"
    /\ rows' = 0
    /\ raised' = "none"
    /\ UNCHANGED <<caller, calData, file, frame, points, idx, count, now, ret,
                   inp, out, initFile, lastSave>>
    /\ UNCHANGED window

\* one pass through the gaze logger's loop (gaze_logger.py, lines 45-83)
LoggerFrame ==
    /\ pc = "logging"
    /\ \E f \in Reads(cap), key \in {"none", "q", "c"} :
          \E g \in {process_frame(calData, f)} :
              /\ f.face => rows < MaxRows
              /\ frame' = f
              /\ rows' = IF g.found THEN rows + 1 ELSE rows
              /\ IF ~f.ret
                 THEN /\ log' = <<"Error reading frame">>
                      /\ cap' = stop_camera(cap) /\ pc' = "ready"
                      /\ raised' = "none" /\ caller' = caller
                 ELSE IF g.raised # "none"
                 THEN /\ log' = <<>>
                      /\ cap' = stop_camera(cap) /\ pc' = "ready"
                      /\ raised' = g.raised /\ caller' = caller
                 ELSE IF key = "q"
                 THEN /\ log' = <<>>
                      /\ cap' = stop_camera(cap) /\ pc' = "ready"
                      /\ raised' = "none" /\ caller' = caller
                 ELSE IF key = "c" /\ now < MaxFits
                 THEN /\ log' = <<"=== Eye Tracker Calibration ===">>
                      /\ cap' = stop_camera(cap) /\ pc' = "cal_start"
                      /\ raised' = "none" /\ caller' = "logger"
                 ELSE /\ log' = <<>>
                      /\ UNCHANGED <<cap, pc, raised, caller>>
    /\ UNCHANGED <<orphans, calData, file, points, idx, count, now, ret,
                   inp, out, initFile, lastSave>>
    /\ window' = IF pc' = "logging" THEN window ELSE FALSE

\* run_calibration(tracker, 5, SamplesPerPoint) called from the top level
RunCalibrationFromTop ==
    /\ pc = "ready"
    /\ now < MaxFits
    /\ pc' = "cal_start"
    /\ caller' = "top"
    /\ log' = <<"=== Eye Tracker Calibration ===">>
    /\ raised' = "none"
    /\ UNCHANGED <<cap, orphans, calData, file, frame, rows, points, idx, count, now,
                   ret, inp, out, initFile, lastSave>>
    /\ UNCHANGED window

\* run_calibration up to its waiting loop (calibration.py, lines 51-76)
CalStart ==
    /\ pc = "cal_start"
    /\ points' = [i \in 1..Len(Positions5) |->
                     CalibrationPoint(Positions5[i][1], Positions5[i][2])]
    /\ idx' = 0 /\ count' = 0
    /\ \E opens \in BOOLEAN :
          LET r == start_camera(cap, orphans, opens)
          IN  /\ cap' = r.cap /\ orphans' = r.orphans /\ log' = r.log
              /\ pc' = IF r.ret THEN "cal_wait" ELSE "cal_return"
    /\ ret' = PyNone
    /\ UNCHANGED <<caller, calData, file, raised, frame, rows, now,
                   inp, out, initFile, lastSave>>
    /\ UNCHANGED window

\* where the per-point loop goes when the sampling of point i has ended
AfterPoint(i) == IF i < Len(points) THEN "cal_sample" ELSE "cal_fit"

\* cv2.destroyWindow on a window that does not exist any more: HighGUI
\* backends either ignore the call or fail it with cv2.error
DestroyMissingWindow == {"ignored", "cv2.error"}

\* one pass through the waiting loop (lines 80-114).  ESC calls stop_camera,
\* which destroys all windows, and then destroyWindow('Calibration').
CalWait ==
    /\ pc = "cal_wait"
    /\ \E f \in Reads(cap), key \in {"none", " ", "esc"},
          missing \in DestroyMissingWindow :
          /\ frame' = f
          /\ IF ~f.ret
             THEN /\ pc' = AfterPoint(0) /\ idx' = 1 /\ count' = 0
                  /\ window' = (window \/ Len(points) > 0)
                  /\ UNCHANGED <<cap, points, ret, raised, caller>>
             ELSE IF key = " "
             THEN /\ pc' = AfterPoint(0) /\ idx' = 1 /\ count' = 0
                  /\ window' = TRUE
                  /\ UNCHANGED <<cap, points, ret, raised, caller>>
             ELSE IF key = "esc"
             THEN /\ cap' = stop_camera(cap) /\ window' = FALSE
                  /\ ret' = PyNone
                  /\ IF missing = "ignored"
                     THEN /\ pc' = "cal_return"
                          /\ UNCHANGED <<points, idx, count, raised, caller>>
                     ELSE /\ pc' = "ready" /\ raised' = "cv2.error"
                          /\ caller' = "top" /\ NoLocals
             ELSE /\ window' = TRUE
                  /\ UNCHANGED <<pc, cap, points, idx, count, ret, raised, caller>>
    /\ log' = <<>>
    /\ UNCHANGED <<orphans, calData, file, rows, now,
                   inp, out, initFile, lastSave>>

\* one pass through the sample loop of point idx (lines 145-192), and the
\* step to the next point where the pass ends the loop
CalSample ==
    /\ pc = "cal_sample"
    /\ IF count >= SamplesPerPoint
       THEN /\ pc' = AfterPoint(idx) /\ idx' = idx + 1 /\ count' = 0
            /\ UNCHANGED <<frame, points>>
       ELSE \E f \in Reads(cap) :
          /\ frame' = f
          /\ IF ~f.ret
             THEN /\ pc' = AfterPoint(idx) /\ idx' = idx + 1 /\ count' = 0
                  /\ UNCHANGED points
             ELSE IF f.face
             THEN LET avg_h == RDiv(RAdd(LeftGaze(f)[1], RightGaze(f)[1]), Rat(2, 1))
                      avg_v == RDiv(RAdd(LeftGaze(f)[2], RightGaze(f)[2]), Rat(2, 1))
                  IN  /\ points' = [points EXCEPT ![idx] = add_sample(@, avg_h, avg_v)]
                      /\ IF count + 1 < SamplesPerPoint
                         THEN count' = count + 1 /\ UNCHANGED <<pc, idx>>
                         ELSE pc' = AfterPoint(idx) /\ idx' = idx + 1 /\ count' = 0
             ELSE UNCHANGED <<pc, idx, count, points>>
    /\ log' = <<>>
    /\ UNCHANGED <<caller, cap, orphans, calData, file, raised, rows, now, ret,
                   inp, out, initFile, lastSave>>
    /\ window' = TRUE

\* the fit and the save that end run_calibration (lines 196-213); an
\* exception leaves run_calibration, and the caller's finally clause, if it
\* has one, stops the camera
CalFit ==
    /\ pc = "cal_fit"
    /\ \E fit \in {calculate_calibration_transform(points, now)} :
           \E fault \in SaveFaults(json_dump(fit.data)) :
           \E r \in {save_calibration(calData, file, fit.data, fault)} :
                  /\ calData' = r.calData /\ file' = r.file /\ log' = r.log
                  /\ lastSave' = SaveRecord(fit.data, fault, r)
                  /\ raised' = r.raised
                  /\ IF r.raised = "none"
                     THEN /\ ret' = fit.data /\ pc' = "cal_return"
                          /\ window' = FALSE
                          /\ UNCHANGED <<cap, caller>>
                     ELSE /\ ret' = PyNone /\ pc' = "ready" /\ caller' = "top"
                          /\ cap' = IF caller = "top" THEN cap ELSE stop_camera(cap)
                          /\ window' = IF caller = "top" THEN window ELSE FALSE
    /\ now' = now + 1
    /\ NoLocals
    /\ UNCHANGED <<orphans, frame, rows, inp, out, initFile>>

\* run_calibration has returned: the top level goes on, the two loops start
\* the camera again (eye_tracker.py, line 289; gaze_logger.py, line 77)
CalReturn ==
    /\ pc = "cal_return"
    /\ IF caller = "top"
       THEN /\ pc' = "ready" /\ UNCHANGED <<cap, orphans, log>>
       ELSE \E opens \in BOOLEAN :
               LET r == start_camera(cap, orphans, opens)
               IN  /\ cap' = r.cap /\ orphans' = r.orphans /\ log' = r.log
                   /\ pc' = IF caller = "live" THEN "live" ELSE "logging"
    /\ caller' = "top"
    /\ NoLocals
    /\ UNCHANGED <<calData, file, raised, frame, rows, now, ret,
                   inp, out, initFile, lastSave>>
    /\ UNCHANGED window

Next ==
    \/ Construct
    \/ RunLiveStart \/ LiveFrame
    \/ LoggerStart \/ LoggerFrame
    \/ RunCalibrationFromTop \/ CalStart \/ CalWait \/ CalSample \/ CalFit \/ CalReturn
Spec == Init /\ [][Next]_vars

\* no loop is running and no call is in progress
AtRest == pc \in {"new", "ready", "cal_return"}

\* C1: every camera handle start_camera acquired is released by the time
\* the loop using it is left, on every exit path, and no acquired handle is
\* overwritten by a new one before it was released: whenever no loop is
\* running the tracker's handle is not open, and no handle was ever rebound
\* while open.
CameraHandleReleased ==
    /\ AtRest => cap # "open"
    /\ orphans = 0

\* this step called start_camera at the start of run_live, of the gaze
\* logger or of run_calibration, and the camera did not open
OpenFailedAtStart ==
    /\ pc \in {"ready", "cal_start"}
    /\ log' = CameraError

\* C10: when the camera cannot be opened at the start of a tracking or
\* calibration session the failure is reported and the operation ends in
\* that step: no capture loop is entered, no frame is read, there is no
\* second attempt (the one handle is left closed), run_live returns,
\* run_calibration returns None, and calibration_data and the calibration
\* file are unchanged.
CameraUnavailableAborts ==
    [][OpenFailedAtStart =>
          /\ pc' = IF pc = "ready" THEN "ready" ELSE "cal_return"
          /\ pc = "cal_start" => ret' = PyNone
          /\ cap' = "closed"
          /\ frame' = frame /\ rows' \in {rows, 0}
          /\ calData' = calData /\ file' = file]_vars

\* run_calibration, called on a calibrated tracker, has returned None
\* because the camera did not open
CameraUnavailableWitness ==
    /\ pc = "cal_return" /\ log = CameraError /\ ret = PyNone
    /\ cap = "closed"
    /\ calData.type = "dict" /\ file.exists

\* the number of samples the calibration point i holds
Samples(ps, i) == Len(ps[i].gaze_samples)
\* 1 for a frame with a face, 0 for a frame without
Faces(f) == IF f.face THEN 1 ELSE 0
ReadError == <<"Error reading frame">>
\* the step that read frame f ended in no error
NotAnError(f) == raised' = "none" /\ log' # ReadError

\* C11: a delivered frame without a face is skipped and is no error:
\* process_frame gives no gaze position for it, the gaze logger writes no
\* row, the calibration walk records no sample and stays with its point;
\* and a delivered frame with a face makes exactly one row in the gaze
\* logger and exactly one sample in the calibration walk.
NoFaceSkippedFaceCounted ==
    [][/\ (pc \in {"live", "logging"} /\ frame'.ret /\ ~frame'.face) =>
              ~process_frame(calData, frame').found /\ NotAnError(frame')
       /\ (pc = "logging" /\ frame'.ret) => rows' = rows + Faces(frame')
       /\ (pc = "cal_sample" /\ frame'.ret) =>
              /\ Samples(points', idx) = Samples(points, idx) + Faces(frame')
              /\ \A i \in DOMAIN points \ {idx} : points'[i] = points[i]
              /\ ~frame'.face => pc' = pc /\ idx' = idx /\ NotAnError(frame')]_vars

\* the same while calibration_data is None or holds numeric parameters
NoFaceSkippedWhenUsable ==
    [][(calData = PyNone \/ UsableParameters(calData)) =>
       /\ (pc \in {"live", "logging"} /\ frame'.ret /\ ~frame'.face) =>
              ~process_frame(calData, frame').found /\ NotAnError(frame')
       /\ (pc = "logging" /\ frame'.ret) => rows' = rows + Faces(frame')
       /\ (pc = "cal_sample" /\ frame'.ret) =>
              /\ Samples(points', idx) = Samples(points, idx) + Faces(frame')
              /\ ~frame'.face => pc' = pc /\ idx' = idx /\ NotAnError(frame')]_vars
\* every calibration point holds exactly samples_per_point samples
AllSampled == \A i \in DOMAIN points : Samples(points, i) = SamplesPerPoint

\* C12: run_calibration fits and saves parameters only when every one of
\* its calibration points has recorded exactly samples_per_point samples: a
\* step of run_calibration that changes calibration_data or the calibration
\* file starts from fully sampled points.
FitOnlyFromFullSamples ==
    [][(pc = "cal_fit" /\ (calData' # calData \/ file' # file)) => AllSampled]_vars
\* this step left run_calibration from its waiting loop: ESC was pressed
EscPressed == pc = "cal_wait" /\ pc' \notin {"cal_wait", "cal_sample", "cal_fit"}

\* C13: cancelling with ESC in the waiting phase makes run_calibration
\* return None, with the camera released and the calibration window closed;
\* no fit is computed and nothing is saved, and calibration_data and the
\* calibration file are as they were when run_calibration was called.
EscCancelReturnsNone ==
    [][/\ pc \in {"cal_start", "cal_wait"} => calData' = calData /\ file' = file
       /\ EscPressed =>
              /\ pc' = "cal_return" /\ ret' = PyNone /\ raised' = "none"
              /\ cap' = "closed" /\ window' = FALSE
              /\ now' = now /\ lastSave' = lastSave]_vars

\* what ESC does whichever way destroyWindow ends
EscCancelReleases ==
    [][/\ pc \in {"cal_start", "cal_wait"} => calData' = calData /\ file' = file
       /\ EscPressed =>
              /\ cap' = "closed" /\ window' = FALSE
              /\ now' = now /\ lastSave' = lastSave]_vars
\* the program goes on running: a sample loop that can make its next pass
\* makes it, and the fit and the return are not put off for ever (the fit
\* is always possible at "cal_fit" and always leaves it, so the last
\* conjunct is weak fairness of CalFit).  What the camera delivers is not
\* constrained.
SpecWalk ==
    /\ Init /\ [][Next]_vars
    /\ WF_vars(CalSample) /\ WF_vars(CalReturn)
    /\ []<>(pc # "cal_fit")

\* run_calibration is in its per-point loop or at its fit
Walking == pc \in {"cal_sample", "cal_fit"}

\* C14: once started, the calibration walk always eventually finishes: each
\* target's sampling ends and run_calibration returns, also when the
\* delivered frames show no face.  (A behaviour that stays in the walk for
\* ever reads frames for ever: a failed read ends the sampling of a point,
\* so the camera keeps delivering frames in it.)
WalkFinishes == Walking ~> ~Walking

\* the walk finishes unless the frames without a face never end
WalkFinishesWithFaces ==
    Walking ~> (~Walking \/ [](Walking /\ frame.ret /\ ~frame.face))

=============================================================================
